---- MODULE Spec2Model ----
(***************************************************************************)
(* Model of docker-qgis/qfc_worker/process_projectfile.py:                 *)
(*   check_valid_project_file, extract_project_details, generate_thumbnail *)
(* Each function is modelled statement group by statement group; `pc` is   *)
(* the position of the single worker inside the running function.          *)
(***************************************************************************)
EXTENDS Integers, Sequences, FiniteSets, TLC

VARIABLES
    pc,              \* position of the worker
    op,              \* function being executed: "none", "check", "extract", "thumb"
    project_filename,\* check: the path's final component, a sequence of characters
    file,            \* check: what is on disk at project_filename
    fh_opened,       \* check: open(project_filename, "rb") has been executed
    parsed,          \* check: ElementTree.iterparse has been run over the file
    xml_context,     \* check: value returned by get_qgis_xml_error_context
    proj,            \* extract/thumb: content of the project file
    env,             \* extract/thumb: behaviour of the surroundings during the call
    tmp_project,     \* transient QgsProject: "none", "alive", "deleted"
    hook_connected,  \* on_project_read is connected to tmp_project.readProject
    hook_runs,       \* how many times on_project_read ran in this call
    map_settings,    \* the QgsMapSettings object of the running function
    details,         \* extract: the dict being assembled
    details_keys,    \* extract: the keys present in `details`, in insertion order
    renderer,        \* thumb: the QgsMapRendererParallelJob
    event_loop,      \* thumb: the QEventLoop
    img,             \* thumb: the image returned by renderer.renderedImage()
    result,          \* outcome of the call once pc = "done"
    previous         \* extract: what the preceding call on the same project returned

vars == <<pc, op, project_filename, file, fh_opened, parsed, xml_context, proj,
          env, tmp_project, hook_connected, hook_runs, map_settings, details,
          details_keys, renderer, event_loop, img, result, previous>>

checkVars == <<project_filename, file, fh_opened, parsed, xml_context>>
docVars == <<tmp_project, hook_connected, hook_runs, map_settings>>
extractVars == <<details, details_keys>>
thumbVars == <<renderer, event_loop, img>>

----------------------------------------------------------------------------
(* Bounds of the model *)
MaxStemLen == 2
MaxLayers == 3
MaxNodes == 2

(* Program constants *)
DefaultChannel == 255
ThumbSize == 100
ProbeWidth == 1024
ProbeHeight == 768

None == "None"

----------------------------------------------------------------------------
(* Generic helpers *)

RECURSIVE SeqsUpTo(_, _)
SeqsUpTo(S, n) ==
    IF n = 0 THEN { <<>> }
    ELSE LET shorter == SeqsUpTo(S, n - 1)
         IN  shorter \cup { Append(s, x) : s \in shorter, x \in S }

Range(s) == { s[i] : i \in 1..Len(s) }

\* Python truthiness of an optional string
Truthy(x) == x # None /\ x # ""

\* Python `a or b`
PyOr_dropFallback(a, b) == a
PyOr(a, b) == IF Truthy(a) THEN a ELSE b

----------------------------------------------------------------------------
(* Paths: pathlib.PurePath.suffix of the final component *)

Chars == { "a", "." }
Stems == SeqsUpTo(Chars, MaxStemLen)
Endings == { <<>>,
             <<".", "q", "g", "s">>,
             <<".", "q", "g", "z">>,
             <<".", "q", "g", "s", "~">>,
             <<".", "Q", "G", "S">>,
             <<".", "q", "g", "z", ".", "b", "a", "k">>,
             <<".", "t", "x", "t">> }
FileNames == { s \o e : s \in Stems, e \in Endings } \ { <<>> }

\* str.rfind("."): the last index holding ".", 0 when there is none
RFindDot(name) ==
    LET dots == { i \in 1..Len(name) : name[i] = "." }
    IN  IF dots = {} THEN 0 ELSE CHOOSE i \in dots : \A j \in dots : j <= i

\* PurePath.suffix: the part of the name from its last dot, empty when the
\* dot is the first or the last character of the name or there is no dot
Suffix_firstDot(name) ==
    LET dots == { i \in 1..Len(name) : name[i] = "." }
        i    == IF dots = {} THEN 0 ELSE CHOOSE k \in dots : \A j \in dots : k <= j
    IN  IF 1 < i /\ i < Len(name) THEN SubSeq(name, i, Len(name)) ELSE <<>>
Suffix(name) ==
    LET i == RFindDot(name)
    IN  IF 1 < i /\ i < Len(name) THEN SubSeq(name, i, Len(name)) ELSE <<>>

QGS == <<".", "q", "g", "s">>
QGZ == <<".", "q", "g", "z">>

----------------------------------------------------------------------------
(* Files on disk, as check_valid_project_file sees them *)

\* str(ParseError): expat's message, which normally ends in the position
ParserMessages == { [text |-> "syntax error: line 1, column 0", has_position |-> TRUE],
                    [text |-> "parse error", has_position |-> FALSE] }

NoError == [text |-> "", has_position |-> FALSE]
WellFormedFile == [exists |-> TRUE, well_formed |-> TRUE, error |-> NoError]
MissingFile == [exists |-> FALSE, well_formed |-> FALSE, error |-> NoError]
Files == { WellFormedFile, MissingFile }
         \cup { [exists |-> TRUE, well_formed |-> FALSE, error |-> m] : m \in ParserMessages }

\* get_qgis_xml_error_context(error_msg, fh): an excerpt of the line the
\* parser points at, or nothing when no position is found or no excerpt can
\* be cut
XmlErrorContexts(error) ==
    IF error.has_position THEN { None, "", "<qgis><layer" } ELSE { None }

NoResult == [kind |-> "none", extension |-> <<>>, xml_error |-> None, reason |-> None]
Returned == [NoResult EXCEPT !.kind = "return"]
Raise(kind) == [NoResult EXCEPT !.kind = kind]

----------------------------------------------------------------------------
(* Project files, as QgsProject.read sees them *)

LayerIds == { "A", "B", "C" }

\* <mapcanvas> elements of the project's DOM document
CanvasNodes == { [has_name |-> TRUE,  name |-> "theMapCanvas", extent |-> "E1", rotation |-> 45],
                 [has_name |-> TRUE,  name |-> "theMapCanvas", extent |-> "E4", rotation |-> 0],
                 [has_name |-> TRUE,  name |-> "mAreaCanvas",  extent |-> "E2", rotation |-> 90],
                 [has_name |-> FALSE, name |-> "",             extent |-> "E3", rotation |-> 0] }

Absent == [present |-> FALSE, value |-> 0]
Entry(v) == [present |-> TRUE, value |-> v]

\* the "Gui" canvas colour entries of the project
GuiEntries == { [red |-> Absent,    green |-> Absent,     blue |-> Absent],
                [red |-> Entry(0),  green |-> Entry(128), blue |-> Entry(255)],
                [red |-> Entry(16), green |-> Absent,     blue |-> Absent] }

\* the "QFieldSync"/"attachmentDirs" entry of the project
AttachmentEntries == { [present |-> FALSE, value |-> <<>>],
                       [present |-> TRUE,  value |-> <<>>],
                       [present |-> TRUE,  value |-> <<"photos", "DCIM">>] }

Projects == [ layers     : SeqsUpTo(LayerIds, MaxLayers),
              nodes      : SeqsUpTo(CanvasNodes, MaxNodes),
              gui        : GuiEntries,
              attachment : AttachmentEntries,
              crs        : { "EPSG:4326" },
              title      : { "demo" } ]

NoProject == [ layers |-> <<>>, nodes |-> <<>>,
               gui |-> [red |-> Absent, green |-> Absent, blue |-> Absent],
               attachment |-> [present |-> FALSE, value |-> <<>>],
               crs |-> "", title |-> "" ]

\* What the surroundings do during one call:
\*   read_ok  - QgsProject.read succeeds (and so emits readProject)
\*   writable - QImage.save can write the output path
\*   outcome  - how an asynchronous render ends: "ok", "errors" (a layer
\*              failed to render: the job reports errors, an image exists),
\*              "null" (no image at all)
RenderOutcomes == { "ok", "errors", "null" }
Envs == [ read_ok : BOOLEAN, writable : BOOLEAN, outcome : RenderOutcomes ]
NoEnv == [ read_ok |-> TRUE, writable |-> TRUE, outcome |-> "ok" ]

----------------------------------------------------------------------------
(* QgsProject / QgsMapSettings / QColor *)

\* QgsProject.readNumEntry(scope, key, default)[0]
ReadNumEntry(entry, default) == IF entry.present THEN entry.value ELSE default

\* QgsProject.readListEntry(scope, key, default)[0]
ReadListEntry_defaultWhenEmpty(entry, default) ==
    IF entry.present /\ entry.value # <<>> THEN entry.value ELSE default
ReadListEntry(entry, default) == IF entry.present THEN entry.value ELSE default

\* a freshly constructed QgsMapSettings
NewMapSettings == [ background |-> <<255, 255, 255>>, extent |-> "EMPTY",
                    rotation |-> 0, size |-> <<0, 0>>, layers |-> <<>> ]

\* QgsMapSettings.readXml(node)
ReadXml(ms, node) == [ms EXCEPT !.extent = node.extent, !.rotation = node.rotation]

\* QgsMapSettings.hasValidSettings()
HasValidSettings(ms) == ms.extent # "EMPTY" /\ ms.size[1] > 0 /\ ms.size[2] > 0

HexDigit(n) == <<"0", "1", "2", "3", "4", "5", "6", "7",
                 "8", "9", "a", "b", "c", "d", "e", "f">>[n + 1]
Hex2(n) == <<HexDigit(n \div 16), HexDigit(n % 16)>>
\* QColor.name(): "#rrggbb"
ColorName(c) == <<"#">> \o Hex2(c[1]) \o Hex2(c[2]) \o Hex2(c[3])

\* QgsRectangle.asWktPolygon()
AsWktPolygon(extent) == <<"Polygon", extent>>

\* the three readNumEntry calls and QColor(r, g, b)
CanvasColor(p) == << ReadNumEntry(p.gui.red, DefaultChannel),
                     ReadNumEntry(p.gui.green, DefaultChannel),
                     ReadNumEntry(p.gui.blue, DefaultChannel) >>

\* the loop over doc.elementsByTagName("mapcanvas")
RECURSIVE ReadMainCanvas(_, _, _)
ReadMainCanvas(ms, nodes, i) ==
    IF i > Len(nodes) THEN ms
    ELSE IF nodes[i].has_name /\ nodes[i].name = "theMapCanvas"
         THEN ReadMainCanvas(ReadXml(ms, nodes[i]), nodes, i + 1)
         ELSE ReadMainCanvas(ms, nodes, i + 1)

\* reversed(list(...))
Reversed_identity(s) == s
Reversed(s) == [ i \in 1..Len(s) |-> s[Len(s) + 1 - i] ]

\* QgsLayerTree.customLayerOrder() of the transient project
CustomLayerOrder(p) == p.layers

----------------------------------------------------------------------------
(* Python dict, insertion ordered: keys in order plus the stored values *)

EmptyDict == [ keys |-> <<>>, value |-> [ x \in {} |-> x ] ]

DictSet(d, k, v) ==
    [ keys  |-> IF k \in Range(d.keys) THEN d.keys ELSE Append(d.keys, k),
      value |-> [ x \in Range(d.keys) \cup {k} |-> IF x = k THEN v ELSE d.value[x] ] ]

\* list(d.keys())
DictKeys_dropLast(d) == IF d.keys = <<>> THEN <<>> ELSE SubSeq(d.keys, 1, Len(d.keys) - 1)
DictKeys(d) == d.keys

\* the descriptor the layer inspector records for one layer
LayerDescriptor(id) == [ id |-> id, name |-> id, is_valid |-> id # "C" ]

\* get_layers_data(project): one entry per layer, in the stored order
RECURSIVE GetLayersDataFrom(_, _, _)
GetLayersDataFrom(d, layers, i) ==
    IF i > Len(layers) THEN d
    ELSE GetLayersDataFrom(DictSet(d, layers[i], LayerDescriptor(layers[i])), layers, i + 1)
GetLayersData(p) == GetLayersDataFrom(EmptyDict, p.layers, 1)

----------------------------------------------------------------------------
(* Initial state: the worker is idle, no call has been made *)

NoDetails == [ background_color |-> <<>>, extent |-> <<>>, crs |-> "",
               project_name |-> "", layers_by_id |-> EmptyDict,
               ordered_layer_ids |-> <<>>, attachment_dirs |-> <<>> ]

NoRenderer == [ status |-> "none", settings |-> NewMapSettings,
                errors |-> FALSE, final_null |-> TRUE, finished |-> 0 ]
NoEventLoop == [ created |-> FALSE, quit_connected |-> FALSE,
                 running |-> FALSE, lost_quits |-> 0 ]
NoImage == [ read |-> FALSE, null |-> TRUE ]
NoPrevious == [ set |-> FALSE, details |-> NoDetails, keys |-> <<>>,
                result |-> NoResult ]

Idle ==
    /\ pc = "idle"
    /\ op = "none"
    /\ project_filename = <<>>
    /\ file = MissingFile
    /\ fh_opened = FALSE
    /\ parsed = FALSE
    /\ xml_context = None
    /\ proj = NoProject
    /\ env = NoEnv
    /\ tmp_project = "none"
    /\ hook_connected = FALSE
    /\ hook_runs = 0
    /\ map_settings = NewMapSettings
    /\ details = NoDetails
    /\ details_keys = <<>>
    /\ renderer = NoRenderer
    /\ event_loop = NoEventLoop
    /\ img = NoImage
    /\ result = NoResult
    /\ previous = NoPrevious

Init == Idle

----------------------------------------------------------------------------
(* check_valid_project_file(project_filename) *)

\* a call starts with fresh locals and no outcome
FreshCall(name, f, p, e) ==
    /\ project_filename' = name
    /\ file' = f
    /\ fh_opened' = FALSE
    /\ parsed' = FALSE
    /\ xml_context' = None
    /\ proj' = p
    /\ env' = e
    /\ tmp_project' = "none"
    /\ hook_connected' = FALSE
    /\ hook_runs' = 0
    /\ map_settings' = NewMapSettings
    /\ details' = NoDetails
    /\ details_keys' = <<>>
    /\ renderer' = NoRenderer
    /\ event_loop' = NoEventLoop
    /\ img' = NoImage
    /\ result' = NoResult

\* line 29-30
CallCheck ==
    /\ pc = "idle"
    /\ \E name \in FileNames, f \in Files : FreshCall(name, f, NoProject, NoEnv)
    /\ op' = "check"
    /\ pc' = "check_exists"
    /\ UNCHANGED previous

CheckExists_noExistenceCheck ==
    /\ pc = "check_exists"
    /\ result' = result
    /\ pc' = "check_suffix"
    /\ UNCHANGED <<previous, op, checkVars, proj, env, docVars, extractVars, thumbVars>>

\* line 32-33
CheckExists ==
    /\ pc = "check_exists"
    /\ IF ~file.exists
       THEN /\ result' = Raise("ProjectFileNotFoundException")
            /\ pc' = "done"
       ELSE /\ result' = result
            /\ pc' = "check_suffix"
    /\ UNCHANGED <<previous, op, checkVars, proj, env, docVars, extractVars, thumbVars>>

CheckSuffix_parseArchive ==
    /\ pc = "check_suffix"
    /\ IF Suffix(project_filename) \in { QGS, QGZ }
       THEN /\ fh_opened' = TRUE
            /\ result' = result
            /\ pc' = "check_parse"
       ELSE /\ fh_opened' = fh_opened
            /\ result' = [Raise("InvalidFileExtensionException")
                            EXCEPT !.extension = Suffix(project_filename)]
            /\ pc' = "done"
    /\ UNCHANGED <<previous, op, project_filename, file, parsed, xml_context, proj, env,
                   docVars, extractVars, thumbVars>>

\* line 35-36 and 46-51
CheckSuffix ==
    /\ pc = "check_suffix"
    /\ IF Suffix(project_filename) = QGS
       THEN /\ fh_opened' = TRUE
            /\ result' = result
            /\ pc' = "check_parse"
       ELSE IF Suffix(project_filename) # QGZ
       THEN /\ fh_opened' = fh_opened
            /\ result' = [Raise("InvalidFileExtensionException")
                            EXCEPT !.extension = Suffix(project_filename)]
            /\ pc' = "done"
       ELSE /\ fh_opened' = fh_opened
            /\ result' = Returned
            /\ pc' = "done"
    /\ UNCHANGED <<previous, op, project_filename, file, parsed, xml_context, proj, env,
                   docVars, extractVars, thumbVars>>

\* line 37-45 and 51
CheckParse ==
    /\ pc = "check_parse"
    /\ parsed' = TRUE
    /\ IF file.well_formed
       THEN /\ xml_context' = xml_context
            /\ result' = Returned
       ELSE \E context \in XmlErrorContexts(file.error) :
               /\ xml_context' = context
               /\ result' = [Raise("InvalidXmlFileException")
                               EXCEPT !.xml_error = PyOr(context, file.error.text)]
    /\ pc' = "done"
    /\ UNCHANGED <<previous, op, project_filename, file, fh_opened, proj, env, docVars,
                   extractVars, thumbVars>>

----------------------------------------------------------------------------
(* extract_project_details(project) *)

\* dict item assignment on `details`: the key joins the keys once
SetKeys(keys, new) ==
    keys \o SelectSeq(new, LAMBDA k : k \notin Range(keys))

\* line 67-89: on_project_read of extract_project_details, on map_settings
ExtractOnProjectRead(ms, p) ==
    LET coloured == [ms EXCEPT !.background = CanvasColor(p)]
        canvas   == ReadMainCanvas(coloured, p.nodes, 1)
    IN  [canvas EXCEPT !.rotation = 0, !.size = <<ProbeWidth, ProbeHeight>>]

\* line 54-61
CallExtract ==
    /\ pc = "idle"
    /\ \E p \in Projects, ok \in BOOLEAN :
          FreshCall(<<>>, MissingFile, p, [NoEnv EXCEPT !.read_ok = ok])
    /\ op' = "extract"
    /\ pc' = "extract_connect"
    /\ UNCHANGED previous

ExtractConnect_noConnect ==
    /\ pc = "extract_connect"
    /\ tmp_project' = "alive"
    /\ hook_connected' = FALSE
    /\ pc' = "extract_read"
    /\ UNCHANGED <<previous, op, checkVars, proj, env, hook_runs, map_settings,
                   extractVars, thumbVars, result>>

\* line 95-104
ExtractConnect ==
    /\ pc = "extract_connect"
    /\ tmp_project' = "alive"
    /\ hook_connected' = TRUE
    /\ pc' = "extract_read"
    /\ UNCHANGED <<previous, op, checkVars, proj, env, hook_runs, map_settings,
                   extractVars, thumbVars, result>>

\* line 105: tmp_project.read emits readProject, which runs the connected
\* on_project_read, when the file could be read
ExtractRead ==
    /\ pc = "extract_read"
    /\ IF env.read_ok /\ hook_connected
       THEN LET ms == ExtractOnProjectRead(map_settings, proj)
            IN  /\ map_settings' = ms
                /\ details' = [details EXCEPT
                                  !.background_color = ColorName(CanvasColor(proj)),
                                  !.extent = AsWktPolygon(ms.extent)]
                /\ details_keys' = SetKeys(details_keys, <<"background_color", "extent">>)
                /\ hook_runs' = hook_runs + 1
       ELSE UNCHANGED <<map_settings, details, details_keys, hook_runs>>
    /\ pc' = "extract_del"
    /\ UNCHANGED <<previous, op, checkVars, proj, env, tmp_project, hook_connected,
                   thumbVars, result>>

ExtractDel_noDelete ==
    /\ pc = "extract_del"
    /\ tmp_project' = tmp_project
    /\ pc' = "extract_target"
    /\ UNCHANGED <<previous, op, checkVars, proj, env, hook_connected, hook_runs,
                   map_settings, extractVars, thumbVars, result>>

\* line 108
ExtractDel ==
    /\ pc = "extract_del"
    /\ tmp_project' = "deleted"
    /\ pc' = "extract_target"
    /\ UNCHANGED <<previous, op, checkVars, proj, env, hook_connected, hook_runs,
                   map_settings, extractVars, thumbVars, result>>

ExtractTarget_dropsInvalidLayers ==
    /\ pc = "extract_target"
    /\ LET layers_by_id == GetLayersData(proj)
       IN  details' = [details EXCEPT
                          !.crs = proj.crs,
                          !.project_name = proj.title,
                          !.layers_by_id = layers_by_id,
                          !.ordered_layer_ids = DictKeys(layers_by_id),
                          !.attachment_dirs = ReadListEntry(proj.attachment, <<"DCIM">>)]
    /\ details_keys' = SetKeys(details_keys,
                               <<"crs", "project_name", "layers_by_id",
                                 "ordered_layer_ids", "attachment_dirs">>)
    /\ proj' = [proj EXCEPT !.layers =
                   SelectSeq(proj.layers, LAMBDA id : LayerDescriptor(id).is_valid)]
    /\ pc' = "extract_return"
    /\ UNCHANGED <<previous, op, checkVars, env, docVars, thumbVars, result>>

\* line 110-119
ExtractTarget ==
    /\ pc = "extract_target"
    /\ LET layers_by_id == GetLayersData(proj)
       IN  details' = [details EXCEPT
                          !.crs = proj.crs,
                          !.project_name = proj.title,
                          !.layers_by_id = layers_by_id,
                          !.ordered_layer_ids = DictKeys(layers_by_id),
                          !.attachment_dirs = ReadListEntry(proj.attachment, <<"DCIM">>)]
    /\ details_keys' = SetKeys(details_keys,
                               <<"crs", "project_name", "layers_by_id",
                                 "ordered_layer_ids", "attachment_dirs">>)
    /\ pc' = "extract_return"
    /\ UNCHANGED <<previous, op, checkVars, proj, env, docVars, thumbVars, result>>

\* line 121-125
ExtractReturn ==
    /\ pc = "extract_return"
    /\ result' = Returned
    /\ pc' = "done"
    /\ UNCHANGED <<previous, op, checkVars, proj, env, docVars, extractVars, thumbVars>>

\* line 54-61: the caller calls extract_project_details once more with the
\* same target project, the project file being unmodified; the locals of the
\* new call are fresh, what the first call returned is kept for comparison
CallExtractAgain ==
    /\ pc = "done"
    /\ op = "extract"
    /\ ~previous.set
    /\ previous' = [ set |-> TRUE, details |-> details, keys |-> details_keys,
                     result |-> result ]
    /\ FreshCall(<<>>, MissingFile, proj, env)
    /\ op' = "extract"
    /\ pc' = "extract_connect"

----------------------------------------------------------------------------
(* generate_thumbnail(project_filename, thumbnail_filename) *)

\* line 146-166: on_project_read of generate_thumbnail, on map_settings
ThumbOnProjectRead(ms, p) ==
    LET coloured == [ms EXCEPT !.background = CanvasColor(p)]
        canvas   == ReadMainCanvas(coloured, p.nodes, 1)
    IN  [canvas EXCEPT !.rotation = 0,
                       !.size = <<ThumbSize, ThumbSize>>,
                       !.layers = Reversed(CustomLayerOrder(p))]

\* line 128-139
CallThumb ==
    /\ pc = "idle"
    /\ \E p \in Projects, e \in Envs :
          /\ p.attachment = NoProject.attachment
          /\ e.outcome = "errors" => p.layers # <<>>
          /\ FreshCall(<<>>, MissingFile, p, e)
    /\ op' = "thumb"
    /\ pc' = "thumb_connect"
    /\ UNCHANGED previous

\* line 171-183
ThumbConnect ==
    /\ pc = "thumb_connect"
    /\ tmp_project' = "alive"
    /\ hook_connected' = TRUE
    /\ pc' = "thumb_read"
    /\ UNCHANGED <<previous, op, checkVars, proj, env, hook_runs, map_settings,
                   extractVars, thumbVars, result>>

\* line 184-187: tmp_project.read emits readProject, which runs the connected
\* on_project_read, when the file could be read
ThumbRead ==
    /\ pc = "thumb_read"
    /\ IF env.read_ok /\ hook_connected
       THEN /\ map_settings' = ThumbOnProjectRead(map_settings, proj)
            /\ hook_runs' = hook_runs + 1
       ELSE UNCHANGED <<map_settings, hook_runs>>
    /\ pc' = "thumb_job"
    /\ UNCHANGED <<previous, op, checkVars, proj, env, tmp_project, hook_connected,
                   extractVars, thumbVars, result>>

\* line 189: the job takes a copy of the settings
ThumbCreateJob ==
    /\ pc = "thumb_job"
    /\ renderer' = [renderer EXCEPT !.status = "created", !.settings = map_settings]
    /\ pc' = "thumb_loop"
    /\ UNCHANGED <<previous, op, checkVars, proj, env, docVars, extractVars, event_loop,
                   img, result>>

\* line 191-192
ThumbConnectQuit ==
    /\ pc = "thumb_loop"
    /\ event_loop' = [event_loop EXCEPT !.created = TRUE, !.quit_connected = TRUE]
    /\ pc' = "thumb_start"
    /\ UNCHANGED <<previous, op, checkVars, proj, env, docVars, extractVars, renderer,
                   img, result>>

\* QEventLoop.quit(): ends the running exec_(); without one it has no effect
Quit(loop) ==
    IF loop.running THEN [loop EXCEPT !.running = FALSE]
    ELSE [loop EXCEPT !.lost_quits = loop.lost_quits + 1]

\* line 193: QgsMapRendererJob.start() starts the layer jobs on the thread
\* pool; with invalid settings it records an error and emits finished at once
ThumbStart ==
    /\ pc = "thumb_start"
    /\ IF HasValidSettings(renderer.settings)
       THEN /\ renderer' = [renderer EXCEPT !.status = "running"]
            /\ event_loop' = event_loop
       ELSE /\ renderer' = [renderer EXCEPT !.status = "idle", !.errors = TRUE,
                                            !.finished = renderer.finished + 1]
            /\ event_loop' = IF event_loop.quit_connected THEN Quit(event_loop)
                             ELSE event_loop
    /\ pc' = "thumb_exec"
    /\ UNCHANGED <<previous, op, checkVars, proj, env, docVars, extractVars, img, result>>

ThumbExec_noWait ==
    /\ pc = "thumb_exec"
    /\ event_loop' = event_loop
    /\ pc' = "thumb_image"
    /\ UNCHANGED <<previous, op, checkVars, proj, env, docVars, extractVars, renderer,
                   img, result>>

\* line 195: event_loop.exec_() is entered
ThumbExec ==
    /\ pc = "thumb_exec"
    /\ event_loop' = [event_loop EXCEPT !.running = TRUE]
    /\ pc' = "thumb_wait"
    /\ UNCHANGED <<previous, op, checkVars, proj, env, docVars, extractVars, renderer,
                   img, result>>

\* the thread pool completes the layer jobs, at any moment after start()
RenderDone ==
    /\ renderer.status = "running"
    /\ renderer' = [renderer EXCEPT !.status = "rendered"]
    /\ UNCHANGED <<previous, pc, op, checkVars, proj, env, docVars, extractVars,
                   event_loop, img, result>>

\* line 195: inside exec_() the event loop delivers the completion of the
\* layer jobs; the job composes the final image and emits finished, whose
\* connected slot is event_loop.quit, and exec_() returns
ThumbWait ==
    /\ pc = "thumb_wait"
    /\ event_loop.running
    /\ renderer.status = "rendered"
    /\ renderer' = [renderer EXCEPT !.status = "idle",
                                    !.errors = (env.outcome # "ok"),
                                    !.final_null = (env.outcome = "null"),
                                    !.finished = renderer.finished + 1]
    /\ event_loop' = IF event_loop.quit_connected THEN Quit(event_loop)
                     ELSE event_loop
    /\ pc' = IF event_loop.quit_connected THEN "thumb_image" ELSE pc
    /\ UNCHANGED <<previous, op, checkVars, proj, env, docVars, extractVars, img, result>>

\* line 197: renderedImage() is the final image of an idle job, and the
\* image composed so far of a job still at work
ThumbImage ==
    /\ pc = "thumb_image"
    /\ img' = [ read |-> TRUE,
                null |-> IF renderer.status = "idle" THEN renderer.final_null
                         ELSE FALSE ]
    /\ pc' = "thumb_save"
    /\ UNCHANGED <<previous, op, checkVars, proj, env, docVars, extractVars, renderer,
                   event_loop, result>>

\* QImage.save(path)
Save(image, e) == ~image.null /\ e.writable

ThumbSave_ignoreResult ==
    /\ pc = "thumb_save"
    /\ result' = result
    /\ pc' = "thumb_del"
    /\ UNCHANGED <<previous, op, checkVars, proj, env, docVars, extractVars, thumbVars>>

\* line 199-200
ThumbSave ==
    /\ pc = "thumb_save"
    /\ IF ~Save(img, env)
       THEN /\ result' = [Raise("FailedThumbnailGenerationException")
                            EXCEPT !.reason = "Failed to save."]
            /\ pc' = "done"
       ELSE /\ result' = result
            /\ pc' = "thumb_del"
    /\ UNCHANGED <<previous, op, checkVars, proj, env, docVars, extractVars, thumbVars>>

\* line 203
ThumbDel ==
    /\ pc = "thumb_del"
    /\ tmp_project' = "deleted"
    /\ pc' = "thumb_return"
    /\ UNCHANGED <<previous, op, checkVars, proj, env, hook_connected, hook_runs,
                   map_settings, extractVars, thumbVars, result>>

\* line 205
ThumbReturn ==
    /\ pc = "thumb_return"
    /\ result' = Returned
    /\ pc' = "done"
    /\ UNCHANGED <<previous, op, checkVars, proj, env, docVars, extractVars, thumbVars>>

----------------------------------------------------------------------------
\* the call is over: its outcome goes to the caller, its locals are gone
\* and the worker is idle again
Finish ==
    /\ pc = "done"
    /\ pc' = "idle"
    /\ op' = "none"
    /\ FreshCall(<<>>, MissingFile, NoProject, NoEnv)
    /\ previous' = NoPrevious

Next ==
    \/ CallCheck
    \/ CheckExists
    \/ CheckSuffix
    \/ CheckParse
    \/ CallExtract
    \/ CallExtractAgain
    \/ ExtractConnect
    \/ ExtractRead
    \/ ExtractDel
    \/ ExtractTarget
    \/ ExtractReturn
    \/ CallThumb
    \/ ThumbConnect
    \/ ThumbRead
    \/ ThumbCreateJob
    \/ ThumbConnectQuit
    \/ ThumbStart
    \/ ThumbExec
    \/ RenderDone
    \/ ThumbWait
    \/ ThumbImage
    \/ ThumbSave
    \/ ThumbDel
    \/ ThumbReturn
    \/ Finish

Spec == Init /\ [][Next]_vars

\* the statements of a running call, which the worker executes one after the
\* other without giving up
Step ==
    \/ CheckExists
    \/ CheckSuffix
    \/ CheckParse
    \/ ExtractConnect
    \/ ExtractRead
    \/ ExtractDel
    \/ ExtractTarget
    \/ ExtractReturn
    \/ ThumbConnect
    \/ ThumbRead
    \/ ThumbCreateJob
    \/ ThumbConnectQuit
    \/ ThumbStart
    \/ ThumbExec
    \/ ThumbWait
    \/ ThumbImage
    \/ ThumbSave
    \/ ThumbDel
    \/ ThumbReturn

\* the worker keeps executing the statements of a call it is in, and the
\* thread pool completes the layer jobs it was given
SpecFair == Spec /\ WF_vars(Step) /\ WF_vars(RenderDone)

----------------------------------------------------------------------------
(* Properties *)

NoDuplicates(s) == \A i, j \in 1..Len(s) : i # j => s[i] # s[j]

\* ext is the extension of name: empty, or a tail of the name that starts
\* with the name's last dot, that dot being neither the first nor the last
\* character of the name
IsExtensionOf(ext, name) ==
    LET dotless(t) == \A i \in 1..Len(t) : t[i] # "."
    IN  \/ /\ ext = <<>>
           /\ \/ Len(name) <= 1
              \/ name[Len(name)] = "."
              \/ dotless(SubSeq(name, 2, Len(name)))
        \/ /\ Len(ext) > 1
           /\ Len(ext) < Len(name)
           /\ ext = SubSeq(name, Len(name) - Len(ext) + 1, Len(name))
           /\ ext[1] = "."
           /\ dotless(SubSeq(ext, 2, Len(ext)))

CheckDone == op = "check" /\ pc = "done"

\* C1: a path that does not exist makes check_valid_project_file fail with
\* ProjectFileNotFoundException whatever its extension, and the file is at no
\* moment opened or parsed.
C1_MissingPathFileNotFound ==
    (op = "check" /\ ~file.exists) =>
        /\ ~fh_opened
        /\ ~parsed
        /\ pc \in { "check_exists", "done" }
        /\ pc = "done" => result.kind = "ProjectFileNotFoundException"

C1_Witness ==
    CheckDone /\ ~file.exists /\ project_filename = <<"a", ".", "q", "g", "s">>
              /\ result.kind = "ProjectFileNotFoundException"

\* C2: an existing file whose extension is neither .qgs nor .qgz makes
\* check_valid_project_file fail with InvalidFileExtensionException, the
\* reported extension is the extension of the supplied path, and the file is
\* neither opened nor parsed.
C2_UnsupportedExtensionReported ==
    (CheckDone /\ file.exists
        /\ ~IsExtensionOf(QGS, project_filename)
        /\ ~IsExtensionOf(QGZ, project_filename)) =>
        /\ result.kind = "InvalidFileExtensionException"
        /\ IsExtensionOf(result.extension, project_filename)
        /\ ~fh_opened
        /\ ~parsed

C2_Witness ==
    CheckDone /\ file.exists
              /\ project_filename = <<"a", ".", ".", "t", "x", "t">>
              /\ result.extension = <<".", "t", "x", "t">>

\* C3: an existing .qgs file that is not well-formed makes
\* check_valid_project_file fail with InvalidXmlFileException with a
\* non-empty message: the excerpt when one was produced, the parser's own
\* message otherwise.
C3_InvalidMarkupMessage ==
    (CheckDone /\ file.exists /\ IsExtensionOf(QGS, project_filename)
        /\ ~file.well_formed) =>
        /\ result.kind = "InvalidXmlFileException"
        /\ result.xml_error # None
        /\ result.xml_error # ""
        /\ xml_context \notin { None, "" } => result.xml_error = xml_context
        /\ xml_context \in { None, "" } => result.xml_error = file.error.text

C3_Witness ==
    CheckDone /\ result.kind = "InvalidXmlFileException"
              /\ file.error.has_position /\ xml_context = ""
              /\ result.xml_error = file.error.text

\* C4: an existing .qgz file is accepted by check_valid_project_file whatever
\* its content; it is neither opened nor parsed.
C4_ArchiveNotInspected ==
    (CheckDone /\ file.exists /\ IsExtensionOf(QGZ, project_filename)) =>
        /\ result = Returned
        /\ ~fh_opened
        /\ ~parsed

C4_Witness ==
    CheckDone /\ file.exists /\ ~file.well_formed
              /\ project_filename = <<"a", ".", "q", "g", "z">>
              /\ result = Returned

\* C5: extract_project_details and generate_thumbnail never return or raise
\* while their transient project is still alive.
C5_TransientDestroyedOnEveryExit ==
    (pc = "done" /\ op \in { "extract", "thumb" }) => tmp_project = "deleted"

\* C6: in generate_thumbnail the rendered image is read and saved only after
\* the render job has emitted finished, and the job is started only after
\* event_loop.quit has been connected to finished.
C6_ImageReadAfterFinished ==
    /\ (op = "thumb" /\ (img.read \/ pc \in { "thumb_image", "thumb_save", "thumb_del",
                                              "thumb_return" }))
          => (renderer.finished > 0 /\ renderer.status = "idle")
    /\ (op = "thumb" /\ pc = "done") => (img.read /\ renderer.finished > 0)
    /\ renderer.status \notin { "none", "created" } => event_loop.quit_connected

C6_Witness ==
    op = "thumb" /\ pc = "done" /\ img.read /\ renderer.finished = 1
                 /\ result = Returned

\* C7: whenever saving the rendered image fails, generate_thumbnail fails with
\* FailedThumbnailGenerationException carrying the reason "Failed to save.".
C7_SaveFailureRaises ==
    (op = "thumb" /\ img.read /\ (~env.writable \/ img.null)) =>
        /\ pc \in { "thumb_save", "done" }
        /\ pc = "done" => /\ result.kind = "FailedThumbnailGenerationException"
                          /\ result.reason = "Failed to save."

C7_Witness ==
    op = "thumb" /\ pc = "done" /\ ~env.writable /\ ~img.null /\ img.read
                 /\ result.reason = "Failed to save."

C9_OrderedIdsAreTheKeys ==
    (op = "extract" /\ pc = "done" /\ result.kind = "return") =>
        LET ids == details.ordered_layer_ids
            map == details.layers_by_id
        IN  /\ Range(ids) = DOMAIN map.value
            /\ NoDuplicates(ids)
            /\ Len(ids) = Cardinality(DOMAIN map.value)
            /\ ids = map.keys

C9_Witness ==
    op = "extract" /\ pc = "done"
        /\ proj.layers = <<"B", "A", "B">>
        /\ details.ordered_layer_ids = <<"B", "A">>

\* C10: once the transient project has been read, the layers of the render
\* settings, and those of the render job made from them, are the project's
\* layer order reversed: same length, position i holds the layer at position
\* n + 1 - i.
IsReverseOf(s, t) ==
    /\ Len(s) = Len(t)
    /\ \A i \in 1..Len(t) : s[i] = t[Len(t) + 1 - i]

C10_RenderLayersReversed ==
    (op = "thumb" /\ hook_runs > 0) =>
        /\ IsReverseOf(map_settings.layers, proj.layers)
        /\ renderer.status # "none" => IsReverseOf(renderer.settings.layers, proj.layers)

C10_Witness ==
    op = "thumb" /\ renderer.status = "running"
                 /\ proj.layers = <<"A", "B">>
                 /\ renderer.settings.layers = <<"B", "A">>

ValidationErrors == { "ProjectFileNotFoundException", "InvalidFileExtensionException",
                      "InvalidXmlFileException" }

\* C11: when a step of extract_project_details fails, a failed read of the
\* transient project included, the call ends in an error that is not one of
\* the validation errors and returns no record.
C11_ExtractionFailurePropagates ==
    (op = "extract" /\ pc = "done" /\ ~env.read_ok) =>
        /\ result.kind # "return"
        /\ result.kind \notin ValidationErrors

\* C12: the settings the render job is created from have output size
\* 100x100 and rotation 0, whatever the main map canvas node declares.
C12_ThumbnailSizeAndRotationFixed ==
    (op = "thumb" /\ renderer.status # "none") =>
        /\ renderer.settings.size = <<100, 100>>
        /\ renderer.settings.rotation = 0

\* C13: the record of extract_project_details holds attachment_dirs =
\* ["DCIM"] when the project has no attachmentDirs entry, and the stored list
\* unchanged when it has one.
C13_AttachmentDirsDefault ==
    (op = "extract" /\ pc = "done" /\ result.kind = "return") =>
        /\ "attachment_dirs" \in Range(details_keys)
        /\ ~proj.attachment.present => details.attachment_dirs = <<"DCIM">>
        /\ proj.attachment.present => details.attachment_dirs = proj.attachment.value

C13_Witness ==
    op = "extract" /\ pc = "done" /\ result.kind = "return"
        /\ ~proj.attachment.present
        /\ details.attachment_dirs = <<"DCIM">>

BeforeRead == { "extract_connect", "extract_read", "thumb_connect", "thumb_read" }
InStage == op \in { "extract", "thumb" }

\* C15 (as stated): in extract_project_details and generate_thumbnail the
\* readProject hook has not run before the read of the transient project and
\* has run exactly once from the return of that read on.
C15_HookRunsExactlyOnce ==
    InStage =>
        /\ pc \in BeforeRead => hook_runs = 0
        /\ pc \notin BeforeRead => hook_runs = 1

\* C15 (amended): the hook runs at most once per call, inside the read of the
\* transient project: it is connected and the project alive when the read
\* starts, it has not run before, and from the return of the read on it has
\* run once when the read succeeded and not at all when it failed, also after
\* the transient project is destroyed.
C15_HookRunsOnceInsideSuccessfulRead ==
    InStage =>
        /\ pc \in BeforeRead => hook_runs = 0
        /\ pc \in { "extract_read", "thumb_read" } =>
              (hook_connected /\ tmp_project = "alive")
        /\ pc \notin BeforeRead => hook_runs = (IF env.read_ok THEN 1 ELSE 0)
        /\ tmp_project = "deleted" => hook_runs = (IF env.read_ok THEN 1 ELSE 0)

C15_Witness ==
    op = "extract" /\ pc = "done" /\ env.read_ok /\ hook_runs = 1
                   /\ tmp_project = "deleted"

TargetKeys == { "crs", "project_name", "layers_by_id", "ordered_layer_ids",
                "attachment_dirs" }

\* C17: in extract_project_details the transient project is alive only during
\* its read and up to the del that follows it; the crs, the title, the layers
\* and the attachment directories of the target are read only once the
\* transient project is deleted, and the target project stays available to
\* the end of the call.
C17_TransientDeletedBeforeTargetRead ==
    op = "extract" =>
        /\ tmp_project = "alive" => pc \in { "extract_read", "extract_del" }
        /\ pc \in { "extract_target", "extract_return", "done" } => tmp_project = "deleted"
        /\ Range(details_keys) \cap TargetKeys # {} =>
              (tmp_project = "deleted" /\ pc \in { "extract_return", "done" })
        /\ proj \in Projects

C17_Witness ==
    op = "extract" /\ pc = "extract_return" /\ tmp_project = "deleted"
                   /\ hook_runs = 1 /\ TargetKeys \subseteq Range(details_keys)

\* C19: every record returned by extract_project_details holds all seven
\* keys, background_color and extent included.
C19_ReturnedRecordComplete ==
    (op = "extract" /\ pc = "done" /\ result.kind = "return") =>
        Range(details_keys) = TargetKeys \cup { "background_color", "extent" }

AfterWait == { "thumb_image", "thumb_save", "thumb_del", "thumb_return", "done" }

\* C16: generate_thumbnail goes past its wait only after the render job has
\* emitted finished, and once the job has emitted finished the call is not
\* stuck: until it has returned or raised it has a next statement to execute.
C16_EndsExactlyWhenJobFinishes ==
    op = "thumb" =>
        /\ pc \in AfterWait => renderer.finished > 0
        /\ (renderer.finished > 0 /\ pc # "done") => ENABLED Step

\* C18: whenever the render job has emitted finished, generate_thumbnail
\* eventually returns or raises, whether the job finished before or after
\* event_loop.exec_() was entered.
C18_FinishedJobResumesCaller ==
    (op = "thumb" /\ renderer.finished > 0) ~> (op = "thumb" /\ pc = "done")

====
